---- MODULE Spec2Model ----
(***************************************************************************)
(* A model of pointlander/salesman (main.go): the exhaustive solver       *)
(* Search, the heuristics PageRank, Eigen, Eigen2, EigenKMeans,           *)
(* NearestNeighbor, Neural and Neural2, and the harness main/test that    *)
(* compares them.                                                         *)
(*                                                                         *)
(* A matrix is the flat slice of the code, a function on 0..Size*Size-1   *)
(* read as a[i*Size+j].  A tour ([]int) is a sequence; Go's loop[k] is    *)
(* loop[k+1] here.  float64 values are integers: every distance the       *)
(* harness makes is an integer and every cost a sum of at most Size+1 of  *)
(* them, so float64 addition is exact on them.  The numeric libraries     *)
(* (gonum eigendecomposition, pagerank, kmeans, tf64 training) are not    *)
(* computed: what they hand back to main.go (a sorted order of ranks, a   *)
(* pairwise affinity, success or failure) is chosen nondeterministically  *)
(* from bounded sets.                                                     *)
(***************************************************************************)
EXTENDS Integers, Sequences, FiniteSets, TLC

\* const Size (main.go:31)
Size == 4

\* math.MaxFloat64, the initial value of every running minimum.  It is the
\* largest finite float64: every other value of the model is below it.
MaxFloat64 == 1000000

\* The number of trials of main's loop (1024 in main.go:47, and the divisor
\* 1024.0 of main.go:56).
Trials == 2

\* Random distances are 1..MaxDist (rand.Intn(8)+1 in main.go:911).
MaxDist == 2

\* Affinities computed by Eigen, Neural and Neural2 are 0..MaxAff.
MaxAff == 1

\* Standalone calls also get matrices with a[j][i] = a[i][j] + skew (i < j),
\* skew in 0..MaxSkew: the abstraction "does not require symmetry".
MaxSkew == 1
MaxRank == 2

Nodes == 0 .. (Size - 1)
Cells == 0 .. (Size * Size - 1)
Pairs == {p \in Nodes \X Nodes : p[1] < p[2]}

\* The value a call has not produced yet.
None == -1

\* The matrix with upper triangle u and lower triangle u + skew.
Matrix(u, skew) ==
    [n \in Cells |->
        LET i == n \div Size
            j == n % Size
        IN  IF i = j THEN 0
            ELSE IF i < j THEN u[<<i, j>>]
            ELSE u[<<j, i>>] + skew]

\* The debug matrix of test (main.go:901-906).
RefSeq == <<0, 20, 42, 35, 20, 0, 30, 34, 42, 30, 0, 12, 35, 34, 12, 0>>
Reference == [n \in Cells |-> RefSeq[n + 1]]

\* The matrices test generates when not in debug mode (main.go:908-915).
RandMatrices == {Matrix(u, 0) : u \in [Pairs -> 1 .. MaxDist]}

\* The matrices standalone solver calls are tried on.
SolveMatrices ==
    {Matrix(u, s) : u \in [Pairs -> 1 .. MaxDist], s \in 0 .. MaxSkew}
        \cup {Reference}

\* sqrt(sum) of Eigen (main.go:186-191, 209-214) and the distances of Neural
\* and Neural2 (main.go:653-658, 842-847): symmetric in (i, j), zero on the
\* diagonal, non-negative and far below MaxFloat64.
ScaleMatrices == {Matrix(u, 0) : u \in [Pairs -> 0 .. MaxAff]}

\* The same values when each node has one coordinate x[i] instead of Size or
\* Scale*Size of them: sqrt((x[i]-x[j])^2).
EuclidMatrices ==
    {[n \in Cells |->
        LET d == x[n \div Size] - x[n % Size] IN IF d < 0 THEN -d ELSE d]
     : x \in [Nodes -> 0 .. MaxAff]}

\* Affinities handed to the bare greedy loops: any finite value, which
\* includes MaxFloat64 itself.
GreedyAffinities ==
    {Matrix(u, 0) : u \in [Pairs -> (0 .. MaxAff) \cup {MaxFloat64}]}

\* The orders in which Size nodes can come.
Perms == {p \in [1 .. Size -> Nodes] : \A x, y \in 1 .. Size : p[x] = p[y] => x = y}

Reverse(p) == [k \in 1 .. Len(p) |-> p[Len(p) + 1 - k]]

\* The fresh visited array [Size]bool{}.
NoneVisited == [n \in Nodes |-> FALSE]

\* A (cost, tour) pair as the solvers return it.
Result(t, l) == [total |-> t, loop |-> l]

----------------------------------------------------------------------------
(* Search (main.go:60-92) *)

\* "value < smallest" (main.go:72): a later tour replaces the kept one only
\* when strictly cheaper.
BetterOrEqual(value, smallest) == value <= smallest
Better(value, smallest) == value < smallest

\* "s < sum" (main.go:84): a later start node wins only when strictly cheaper.
BetterStart(s, sum) == s < sum

\* The leaf of the search (main.go:76-78): every node is visited, the path
\* closes back to its own start nodes[0].
LeafOpen(a, sum, i, nodes) == Result(sum, Append(nodes, nodes[1]))
Leaf(a, sum, i, nodes) ==
    Result(sum + a[i * Size + nodes[1]], Append(nodes, nodes[1]))

RECURSIVE search(_, _, _, _, _), searchFrom(_, _, _, _, _, _, _)

\* The loop "for j, skip := range visited" (main.go:66-75) from index j on;
\* acc is (smallest, cities, skipped).  append(nodes, j) never writes into
\* an array another branch reads: with Size = 4 the slice grows 1 -> 2 -> 4
\* and only the single child at depth 3 appends in place.
searchFrom(a, sum, i, nodes, visited, j, acc) ==
    IF j = Size THEN acc
    ELSE IF visited[j] THEN searchFrom(a, sum, i, nodes, visited, j + 1, acc)
    ELSE LET r == search(a, sum + a[i * Size + j], j, Append(nodes, j), visited)
         IN  searchFrom(a, sum, i, nodes, visited, j + 1,
                 IF Better(r.total, acc.smallest)
                 THEN [smallest |-> r.total, cities |-> r.loop, skipped |-> FALSE]
                 ELSE [acc EXCEPT !.skipped = FALSE])

\* The closure search (main.go:62-80).
search(a, sum, i, nodes, visited) ==
    LET vis == [visited EXCEPT ![i] = TRUE]
        acc == searchFrom(a, sum, i, nodes, vis, 0,
                   [smallest |-> MaxFloat64, cities |-> nodes, skipped |-> TRUE])
    IN  IF acc.skipped THEN Leaf(a, sum, i, nodes)
        ELSE Result(acc.smallest, acc.cities)

RECURSIVE SearchStarts(_, _, _)

\* The loop over the start nodes 1..Size-1 (main.go:82-87).
SearchStarts(a, i, best) ==
    IF i = Size THEN best
    ELSE LET r == search(a, 0, i, <<i>>, NoneVisited)
         IN  SearchStarts(a, i + 1, IF BetterStart(r.total, best.total) THEN r ELSE best)

Search(a) == SearchStarts(a, 1, search(a, 0, 0, <<0>>, NoneVisited))

----------------------------------------------------------------------------
(* The cost loop shared by the heuristics *)

RECURSIVE LoopCostFrom(_, _, _, _)

LoopCostFrom(a, loop, k, last) ==
    IF k > Len(loop) THEN 0
    ELSE a[last * Size + loop[k]] + LoopCostFrom(a, loop, k + 1, loop[k])

\* "last := loop[0]; for _, node := range loop[1:] { total += a[last*Size+node];
\* last = node }" (main.go:128-132, 248-252, 378-382, 548-552, 696-700, 885-889).
LoopCostSkipFirst(a, loop) ==
    IF Len(loop) < 2 THEN 0 ELSE LoopCostFrom(a, loop, 3, loop[2])
LoopCost(a, loop) ==
    IF loop = <<>> THEN 0 ELSE LoopCostFrom(a, loop, 2, loop[1])

----------------------------------------------------------------------------
(* The greedy loops (main.go:226-256, 258-287, 526-556, 669-704, 858-893) *)

RECURSIVE Nearest(_, _, _, _, _)

\* The scan "for j := 0; j < Size; j++" (main.go:235-242, 679-687) from j on;
\* acc is (min, k, done).  done is read by the early-exit form only.
Nearest(distances, state, visited, j, acc) ==
    IF j = Size THEN acc
    ELSE IF j = state \/ visited[j]
         THEN Nearest(distances, state, visited, j + 1, acc)
    ELSE IF distances[state * Size + j] < acc.min
         THEN Nearest(distances, state, visited, j + 1,
                  [min |-> distances[state * Size + j], k |-> j, done |-> FALSE])
    ELSE Nearest(distances, state, visited, j + 1, [acc EXCEPT !.done = FALSE])

\* "min, k := math.MaxFloat64, 0" and "done := true" (main.go:234, 677-678).
ScanStart == [min |-> MaxFloat64, k |-> 0, done |-> TRUE]

RECURSIVE StepsClose(_, _, _, _, _)

\* "for i := 0; i < Size-1; i++" (main.go:233-246, 533-546): Size-1 steps.
StepsClose(distances, i, state, visited, loop) ==
    IF i = Size - 1 THEN loop
    ELSE LET k == Nearest(distances, state, visited, 0, ScanStart).k
         IN  StepsClose(distances, i + 1, k, [visited EXCEPT ![k] = TRUE],
                        Append(loop, k))

\* One offset of the Size-1 form: the steps, then loop = append(loop, loop[0])
\* (main.go:247, 547).
LoopClose(distances, offset) ==
    LET l == StepsClose(distances, 0, offset,
                        [NoneVisited EXCEPT ![offset] = TRUE], <<offset>>)
    IN  Append(l, l[1])

RECURSIVE StepsEarly(_, _, _, _, _)

\* "for i := 0; i < Size; i++" with "if done { loop = append(loop, loop[0]);
\* break }" (main.go:676-695, 865-884): up to Size steps.
StepsEarly(distances, i, state, visited, loop) ==
    IF i = Size THEN loop
    ELSE LET s == Nearest(distances, state, visited, 0, ScanStart)
         IN  IF s.done THEN Append(loop, loop[1])
             ELSE StepsEarly(distances, i + 1, s.k, [visited EXCEPT ![s.k] = TRUE],
                             Append(loop, s.k))

\* One offset of the early-exit form.
LoopEarly(distances, offset) ==
    StepsEarly(distances, 0, offset, [NoneVisited EXCEPT ![offset] = TRUE], <<offset>>)

\* "if total < minTotal && loop[0] == loop[Size]" (main.go:253, 284, 553, 701, 890).
Keeps(total, loop, best) == total < best.total /\ loop[1] = loop[Size + 1]

\* "minTotal, minLoop := math.MaxFloat64, make([]int, 0, 8)" (main.go:226, 526).
Fresh == Result(MaxFloat64, <<>>)

RECURSIVE GreedyClose(_, _, _, _), GreedyEarly(_, _, _, _)

\* "for offset := 0; offset < Size; offset++" of the Size-1 form, from offset
\* on with the running minimum best.
GreedyClose(distances, a, offset, best) ==
    IF offset = Size THEN best
    ELSE LET loop == LoopClose(distances, offset)
             total == LoopCost(a, loop)
         IN  GreedyClose(distances, a, offset + 1,
                 IF Keeps(total, loop, best) THEN Result(total, loop) ELSE best)

\* The same loop of the early-exit form.
GreedyEarly(distances, a, offset, best) ==
    IF offset = Size THEN best
    ELSE LET loop == LoopEarly(distances, offset)
             total == LoopCost(a, loop)
         IN  GreedyEarly(distances, a, offset + 1,
                 IF Keeps(total, loop, best) THEN Result(total, loop) ELSE best)

\* NearestNeighbor (main.go:524-558): the affinity is the distance matrix.
NearestNeighbor(a) == GreedyClose(a, a, 0, Fresh)

\* distances[i*Size+j] = math.Sqrt(sum) * a[i*Size+j] (main.go:191, 214).
SpectralDistances(scale, a) == [n \in Cells |-> scale[n] * a[n]]

----------------------------------------------------------------------------
(* PageRank (main.go:95-137) and Eigen2 (main.go:295-389) *)

\* cities is the node order after sort.Slice by rank (main.go:116-118);
\* pageNodes is the last city followed by all cities (main.go:122-126).
PageRank(a, cities) ==
    LET pageNodes == <<cities[Len(cities)]>> \o cities
    IN  Result(LoopCost(a, pageNodes), pageNodes)

\* City{ID: node, Rank: rank} (main.go:105-108, 111-114).
City(node, rank) == [ID |-> node, Rank |-> rank]

\* The scores graph.Rank can deliver: one per node, in units small enough
\* for equal scores to happen.
Scores == [Nodes -> 0 .. MaxRank]

\* cities once the callback has run for every node, in the order order
\* (main.go:110-115).
Delivered(order, rank) == [k \in 1 .. Size |-> City(order[k], rank[order[k]])]

\* "return cities[i].Rank < cities[j].Rank" (main.go:117).
LessDescending(x, y) == y.Rank < x.Rank
Less(x, y) == x.Rank < y.Rank

\* sort.Slice (main.go:116-118): a rearrangement in which no element is
\* less than the one before it; it is not stable, so elements that compare
\* equal can come in any order.
SortSlice(s) ==
    {t \in {[k \in 1 .. Len(s) |-> s[p[k] + 1]] : p \in Perms} :
        \A k \in 1 .. (Len(s) - 1) : ~Less(t[k + 1], t[k])}

\* The ID column of cities.
IDs(s) == [k \in 1 .. Len(s) |-> s[k].ID]

RECURSIVE Distinct(_, _, _)

\* "for _, node := range nodes[i:]" (main.go:364-373): the first Size distinct
\* IDs from index k on, in order of first appearance.
Distinct(nodes, k, l) ==
    IF k > Len(nodes) \/ Len(l) = Size THEN l
    ELSE IF \E x \in 1 .. Len(l) : l[x] = nodes[k] THEN Distinct(nodes, k + 1, l)
    ELSE Distinct(nodes, k + 1, Append(l, nodes[k]))

RECURSIVE Eigen2From(_, _, _, _)

\* "for i := 0; i < len(nodes); i++" (main.go:362-386) from i on (i counts from
\* 1 here); it stops at the first suffix that lacks a node.
Eigen2From(a, nodes, i, best) ==
    IF i > Len(nodes) THEN best
    ELSE LET d == Distinct(nodes, i, <<>>)
         IN  IF Len(d) < Size THEN best
             ELSE LET l == Append(d, d[1])
                      t == LoopCost(a, l)
                  IN  Eigen2From(a, nodes, i + 1,
                          IF t < best.total THEN Result(t, l) ELSE best)

\* nodes is the ID column of the 2*Size*Size (ID, Rank) pairs after sort.Slice
\* (main.go:339-354).
Eigen2(a, nodes) == Eigen2From(a, nodes, 1, Fresh)

\* The sorted ID columns tried: 2*Size blocks of Size, the first in order p and
\* the others in order q, so each ID comes 2*Size times as in main.go:340-351.
Blocks(p, q) == p \o q \o q \o q \o q \o q \o q \o q

----------------------------------------------------------------------------
(* The state *)

VARIABLES
    mode,        \* "main": the program; "solve", "greedy": one standalone call
    pc,          \* where main/test is, or the call still to be made
    debug,       \* *FlagDebug (main.go:36)
    i,           \* the loop variable of main (main.go:47)
    a,           \* the distance matrix of the current trial (main.go:901-916)
    aff,         \* the affinity handed to a bare greedy loop
    total,       \* the cost each call of test returned (main.go:926-932)
    ret,         \* minTotal/minLoop of the solver running, and what a
                 \* standalone call returned
    eigenCount,  \* main.go:46
    nnCount,     \* main.go:46
    cities,      \* the cities PageRank collected from graph.Rank (main.go:109-115)
    out,         \* what was printed to stdout
    err          \* the value of the panic that ended the process, or ""

vars == <<mode, pc, debug, i, a, aff, total, ret, eigenCount, nnCount, cities,
          out, err>>

\* The calls of test, in order (main.go:926-932).
Order == <<"Search", "PageRank", "Eigen", "Eigen2", "NearestNeighbor",
           "EigenKMeans", "Neural2">>
Calls == {Order[k] : k \in 1 .. Len(Order)}

\* The calls whose results test names (total0..total5, loop0..loop5) and
\* prints in debug mode; those of EigenKMeans are dropped (main.go:931).
Named == Calls \ {"EigenKMeans"}

NoTotals == [s \in Calls |-> None]
NoReturn == [fn |-> "", total |-> 0, loop |-> <<>>]

\* Where control goes when solver fn returns: to the next call of test, or,
\* for a standalone call, nowhere.
After(fn) ==
    IF mode # "main" THEN "exit"
    ELSE IF fn = "Neural2" THEN "return"
    ELSE Order[(CHOOSE k \in 1 .. Len(Order) : Order[k] = fn) + 1]

\* What the numeric libraries can hand back, by mode: the harness is run
\* on the smaller families.
Affinities == IF mode = "main" THEN EuclidMatrices ELSE ScaleMatrices

\* The orders in which graph.Rank calls back: any in a standalone call of
\* PageRank, node order elsewhere (sort.Slice follows either way).
Deliveries == IF mode = "rank" THEN Perms ELSE {[k \in 1 .. Size |-> k - 1]}
\* Solver fn returns r.  In test the cost is kept and, in debug mode, the
\* result printed (main.go:89, 134, 289, 895, 941-946); the tour is read by
\* nothing else.
Returns(fn, r) ==
    /\ ret' = IF mode = "main" THEN NoReturn
              ELSE [fn |-> fn, total |-> r.total, loop |-> r.loop]
    /\ total' = IF mode = "main" THEN [total EXCEPT ![fn] = r.total] ELSE total
    /\ out' = IF debug /\ fn \in Named
              THEN Append(out, <<fn, r.total, r.loop>>) ELSE out
    /\ pc' = After(fn)
    /\ cities' = IF mode = "main" THEN <<>> ELSE cities
    /\ UNCHANGED <<mode, debug, i, a, aff, eigenCount, nnCount, err>>

\* panic(msg) with no recover anywhere (main.go:145, 300, 418, 500, 958): the
\* process ends, nothing more runs or is printed to stdout.  next is where
\* control would have gone.
Continues(msg, next) ==
    /\ pc' = next
    /\ err' = msg
    /\ UNCHANGED <<mode, cities, debug, i, a, aff, total, ret, eigenCount, nnCount, out>>
Panics(msg, next) ==
    /\ pc' = "panic"
    /\ err' = msg
    /\ UNCHANGED <<mode, cities, debug, i, a, aff, total, ret, eigenCount, nnCount, out>>

----------------------------------------------------------------------------
(* main (main.go:39-57) and test (main.go:900-951) *)

\* flag.Parse, rand.Seed(1), and the debug branch "test(); return".
Main ==
    /\ pc = "main"
    /\ pc' = IF debug THEN "test" ELSE "loop"
    /\ UNCHANGED <<mode, cities, debug, i, a, aff, total, ret, eigenCount, nnCount, out, err>>

\* "for i := 0; i < 1024; i++" and, after it, the Println of the two
\* fractions (main.go:47, 56); a fraction is kept as <<count, divisor>>.
Loop ==
    /\ pc = "loop"
    /\ IF i < Trials
       THEN pc' = "test" /\ out' = out
       ELSE /\ pc' = "exit"
            /\ out' = Append(out, <<"fractions", <<eigenCount, Trials>>,
                                    <<nnCount, Trials>>>>)
    /\ UNCHANGED <<mode, cities, debug, i, a, aff, total, ret, eigenCount, nnCount, err>>

\* test builds its matrix: the fixed one in debug mode, else Size*(Size-1)/2
\* draws mirrored across the diagonal (main.go:901-916).
Generate ==
    /\ pc = "test"
    /\ a' \in (IF debug THEN {Reference} ELSE RandMatrices)
    /\ total' = NoTotals
    /\ pc' = "Search"
    /\ UNCHANGED <<mode, cities, debug, i, aff, ret, eigenCount, nnCount, out, err>>

CallSearch ==
    /\ pc = "Search"
    /\ Returns("Search", Search(a))

\* PageRank up to the end of graph.Rank (main.go:95-115).
CallRank ==
    /\ pc = "PageRank"
    /\ \E order \in Deliveries : \E rank \in Scores :
          cities' = Delivered(order, rank)
    /\ pc' = "PageRank.sort"
    /\ UNCHANGED <<mode, debug, i, a, aff, total, ret, eigenCount, nnCount, out, err>>

\* The sort, pageNodes and the cost (main.go:116-136).
CallPageRank ==
    /\ pc = "PageRank.sort"
    /\ \E sorted \in SortSlice(cities) :
          Returns("PageRank", PageRank(a, IDs(sorted)))

\* Eigen up to the end of its first greedy loop (main.go:140-256).
EigenRight ==
    /\ pc = "Eigen"
    /\ \/ Panics("Eigendecomposition failed", "EigenLeft")
       \/ \E scale \in Affinities :
             /\ ret' = [fn |-> "Eigen.right"] @@
                       GreedyClose(SpectralDistances(scale, a), a, 0, Fresh)
             /\ pc' = "EigenLeft"
             /\ UNCHANGED <<mode, cities, debug, i, a, aff, total, eigenCount, nnCount,
                            out, err>>

\* Its second greedy loop, over leftDistances, which goes on from the
\* minTotal and minLoop of the first (main.go:258-291).
EigenLeft ==
    /\ pc = "EigenLeft"
    /\ \E scale \in Affinities :
          Returns("Eigen", GreedyClose(SpectralDistances(scale, a), a, 0,
                                       Result(ret.total, ret.loop)))

CallEigen2 ==
    /\ pc = "Eigen2"
    /\ \/ Panics("Eigendecomposition failed", After("Eigen2"))
       \/ \E p \in Perms : \E q \in {p, Reverse(p)} :
             Returns("Eigen2", Eigen2(a, Blocks(p, q)))

CallNearestNeighbor ==
    /\ pc = "NearestNeighbor"
    /\ Returns("NearestNeighbor", NearestNeighbor(a))

\* EigenKMeans (main.go:413-521): it factorizes, partitions, and returns
\* "0, nil" whatever the clusters are.
CallEigenKMeans ==
    /\ pc = "EigenKMeans"
    /\ \/ Panics("Eigendecomposition failed", After("EigenKMeans"))
       \/ Panics("kmeans: Partition failed", After("EigenKMeans"))
       \/ Returns("EigenKMeans", Result(0, <<>>))

\* Neural2 (main.go:712-898): training, then the early-exit greedy loop over
\* the distances of the trained weights.
CallNeural2 ==
    /\ pc = "Neural2"
    /\ \E distance \in Affinities :
          Returns("Neural2", GreedyEarly(distance, a, 0, Fresh))

\* Neural (main.go:561-709), which test does not call.
CallNeural ==
    /\ pc = "Neural"
    /\ \E distances \in Affinities :
          Returns("Neural", GreedyEarly(distances, a, 0, Fresh))

\* The end of test and what main does with its two results: in debug mode
\* Reduction (main.go:947, 953-1018) and "return" (main.go:44); else the two
\* counters (main.go:48-54, 950) and i++.  ReturnCounts is Return without
\* the debug branch.
ReturnCounts ==
    /\ pc = "return"
    /\ eigenCount' = IF total["Search"] = total["Neural2"]
                      THEN eigenCount + 1 ELSE eigenCount
    /\ nnCount' = IF total["Search"] = total["NearestNeighbor"]
                   THEN nnCount + 1 ELSE nnCount
    /\ i' = i + 1
    /\ pc' = "loop"
    /\ UNCHANGED <<mode, cities, debug, a, aff, total, ret, out, err>>
Return ==
    /\ pc = "return"
    /\ IF debug
       THEN \/ Panics("PrincipalComponents failed", "exit")
            \/ /\ pc' = "exit"
               /\ UNCHANGED <<mode, cities, debug, i, a, aff, total, ret, eigenCount,
                              nnCount, out, err>>
       ELSE /\ eigenCount' = IF total["Search"] = total["Neural2"]
                             THEN eigenCount + 1 ELSE eigenCount
            /\ nnCount' = IF total["Search"] = total["NearestNeighbor"]
                          THEN nnCount + 1 ELSE nnCount
            /\ i' = i + 1
            /\ pc' = "loop"
            /\ UNCHANGED <<mode, cities, debug, a, aff, total, ret, out, err>>

\* The bare greedy loops on an affinity of their own.
CallGreedyClose ==
    /\ pc = "greedyClose"
    /\ Returns("greedyClose", GreedyClose(aff, a, 0, Fresh))

CallGreedyEarly ==
    /\ pc = "greedyEarly"
    /\ Returns("greedyEarly", GreedyEarly(aff, a, 0, Fresh))

Init ==
    /\ mode = "main"
    /\ pc = "main"
    /\ debug \in BOOLEAN
    /\ i = 0
    /\ a = Reference
    /\ aff = Reference
    /\ total = NoTotals
    /\ ret = NoReturn
    /\ eigenCount = 0
    /\ nnCount = 0
    /\ cities = <<>>
    /\ out = <<>>
    /\ err = ""

Next ==
    \/ Main
    \/ Loop
    \/ Generate
    \/ CallSearch
    \/ CallRank
    \/ CallPageRank
    \/ EigenRight
    \/ EigenLeft
    \/ CallEigen2
    \/ CallNearestNeighbor
    \/ CallEigenKMeans
    \/ CallNeural2
    \/ Return

Spec == Init /\ [][Next]_vars

\* One call of one solver on one matrix.
InitSolve ==
    /\ mode = "solve"
    /\ pc \in Calls \cup {"Neural"}
    /\ debug = FALSE
    /\ i = 0
    /\ a \in SolveMatrices
    /\ aff = Reference
    /\ total = NoTotals
    /\ ret = NoReturn
    /\ eigenCount = 0
    /\ nnCount = 0
    /\ cities = <<>>
    /\ out = <<>>
    /\ err = ""

NextSolve ==
    \/ CallSearch
    \/ CallRank
    \/ CallPageRank
    \/ EigenRight
    \/ EigenLeft
    \/ CallEigen2
    \/ CallNearestNeighbor
    \/ CallEigenKMeans
    \/ CallNeural
    \/ CallNeural2

SpecSolve == InitSolve /\ [][NextSolve]_vars

\* One run of one greedy loop on one affinity and one distance matrix.
InitGreedy ==
    /\ mode = "greedy"
    /\ pc \in {"greedyClose", "greedyEarly"}
    /\ debug = FALSE
    /\ i = 0
    /\ a \in RandMatrices
    /\ aff \in GreedyAffinities
    /\ total = NoTotals
    /\ ret = NoReturn
    /\ eigenCount = 0
    /\ nnCount = 0
    /\ cities = <<>>
    /\ out = <<>>
    /\ err = ""

NextGreedy ==
    \/ CallGreedyClose
    \/ CallGreedyEarly

SpecGreedy == InitGreedy /\ [][NextGreedy]_vars

\* One call of Search on one matrix.
InitSearch ==
    /\ InitSolve
    /\ pc = "Search"

NextSearch == CallSearch

SpecSearch == InitSearch /\ [][NextSearch]_vars

\* One call of PageRank on a matrix test can pass it, with the callbacks in
\* any order.
InitPageRank ==
    /\ mode = "rank"
    /\ pc = "PageRank"
    /\ debug = FALSE
    /\ i = 0
    /\ a \in RandMatrices \cup {Reference}
    /\ aff = Reference
    /\ total = NoTotals
    /\ ret = NoReturn
    /\ eigenCount = 0
    /\ nnCount = 0
    /\ cities = <<>>
    /\ out = <<>>
    /\ err = ""

NextPageRank ==
    \/ CallRank
    \/ CallPageRank

SpecPageRank == InitPageRank /\ [][NextPageRank]_vars

----------------------------------------------------------------------------
(* What the claims speak of *)

RECURSIVE EdgeSum(_, _, _)

EdgeSum(m, t, k) ==
    IF k >= Len(t) THEN 0 ELSE m[t[k] * Size + t[k + 1]] + EdgeSum(m, t, k + 1)

\* The cost of a node sequence under matrix m: the sum of
\* m[t[k]][t[k+1]] over its consecutive pairs.
TourCost(m, t) == EdgeSum(m, t, 1)

\* A Tour: Size+1 entries, closed, its first Size entries all the nodes.
IsTour(t) ==
    /\ Len(t) = Size + 1
    /\ t[1] = t[Size + 1]
    /\ {t[k] : k \in 1 .. Size} = Nodes

\* Every Hamiltonian cycle from every start node.
AllCycles == {Append(p, p[1]) : p \in Perms}

MinCycleCost(m) ==
    LET costs == {TourCost(m, t) : t \in AllCycles}
    IN  CHOOSE c \in costs : \A d \in costs : c <= d

\* t comes before u in search order: start nodes ascending, then depth
\* first with the unvisited nodes in ascending index.
Before(t, u) ==
    \E k \in 1 .. Size : t[k] < u[k] /\ \A x \in 1 .. (k - 1) : t[x] = u[x]

FirstMinimal(m) ==
    LET minimal == {t \in AllCycles : TourCost(m, t) = MinCycleCost(m)}
    IN  CHOOSE t \in minimal : \A u \in minimal \ {t} : Before(t, u)

Returned == Result(ret.total, ret.loop)

FractionsPrinted == \E k \in 1 .. Len(out) : out[k][1] = "fractions"

\* The number of calls of test that have returned to main.
TestsReturned == IF debug THEN (IF pc = "exit" THEN 1 ELSE 0) ELSE i

----------------------------------------------------------------------------
(* The claims *)

\* C1: in a trial, the cost Search returned is <= the cost every heuristic
\* called in that trial returned (PageRank, Eigen, Eigen2, EigenKMeans,
\* NearestNeighbor, Neural2).
C1_ExactIsLowerBound ==
    \A h \in Calls \ {"Search"} :
        (total["Search"] # None /\ total[h] # None) => total["Search"] <= total[h]

\* C2: Search returns a Tour whose cost is the minimum over all Hamiltonian
\* cycles from all start nodes; the tour is the first minimum-cost one in
\* search order, and so starts and ends at node 0.
C2_SearchFirstMinimum ==
    ret.fn = "Search" =>
        /\ IsTour(ret.loop)
        /\ ret.total = MinCycleCost(a)
        /\ ret.total = TourCost(a, ret.loop)
        /\ ret.loop = FirstMinimal(a)
        /\ ret.loop[1] = 0
        /\ ret.loop[Size + 1] = 0

\* Search has returned on a matrix that is not symmetric, where the first
\* tour of the search order is not a cheapest one and the cheapest cost is
\* reached by several tours from start node 0.
C2_Witness ==
    /\ ret.fn = "Search"
    /\ a[1] # a[Size]
    /\ ret.total < TourCost(a, <<0, 1, 2, 3, 0>>)
    /\ \E t \in AllCycles : t[1] = 0 /\ t # ret.loop /\ TourCost(a, t) = ret.total

\* C3: on the debug matrix Search returns cost 97.
C3_ReferenceCost ==
    (ret.fn = "Search" /\ a = Reference) => ret.total = 97

C3_Witness ==
    /\ ret.fn = "Search"
    /\ a = Reference
    /\ ret.loop = <<0, 1, 2, 3, 0>>

\* C4: on any affinity matrix of finite values a greedy loop returns a Tour:
\* Size+1 entries, closed, every node once; never an empty one.
C4_GreedyReturnsTour ==
    ret.fn \in {"greedyClose", "greedyEarly"} => IsTour(ret.loop)

\* C5: the cost a solver returns is the cost recomputed over the node
\* sequence it returns, under the original distance matrix.
C5_CostRoundTrip ==
    ret.fn \in Calls \cup {"Neural"} => ret.total = TourCost(a, ret.loop)

\* A heuristic has returned a real tour that is not a cheapest one.
C5_Witness ==
    /\ ret.fn \in {"Eigen", "Eigen2", "Neural", "Neural2", "PageRank"}
    /\ IsTour(ret.loop)
    /\ ret.total = TourCost(a, ret.loop)
    /\ ret.total > MinCycleCost(a)

\* C6: main keeps, for each heuristic test calls, a counter that goes up in
\* a trial exactly when that heuristic's cost equals the exact cost.
C6_CounterPerHeuristic ==
    [][(pc = "return" /\ ~debug) =>
          \A h \in Named \ {"Search"} :
              \/ (eigenCount' = eigenCount + 1) <=> (total[h] = total["Search"])
              \/ (nnCount' = nnCount + 1) <=> (total[h] = total["Search"])]_vars

\* C8: when Factorize fails the run ends there: nothing runs after it, no
\* fractions are printed, and the run ends otherwise than one in which a
\* heuristic only disagreed with the exact cost.
C8_FactorizeFailureIsFatal ==
    /\ [](err = "Eigendecomposition failed" => (pc = "panic" /\ ~FractionsPrinted))
    /\ [](pc \in {"loop", "exit"} => err = "")
    /\ [][pc # "panic"]_vars
    /\ [][(pc = "return" /\ ~debug /\ total["Search"] # total["Neural2"]) =>
             (pc' = "loop" /\ err' = "" /\ eigenCount' = eigenCount)]_vars

\* Factorize failed in the second trial, after the first had been counted.
C8_Witness ==
    /\ err = "Eigendecomposition failed"
    /\ i = 1
    /\ eigenCount + nnCount > 0

\* C9 as stated: a finished run has made the same number of trials and has
\* printed the fractions, in debug mode as otherwise.
C9_SameRunInBothModes ==
    pc = "exit" => (TestsReturned = Trials /\ FractionsPrinted)

\* C9 as amended: the toggle also decides the shape of the run.  In debug
\* mode test is called once, on the fixed matrix, its results are printed,
\* and no counter is kept and no fraction printed; otherwise test is called
\* Trials times on random matrices, nothing is printed but the fractions.
\* In both modes test makes the same seven calls.
C9_DebugRunsOneTrial ==
    /\ debug => /\ i = 0 /\ eigenCount = 0 /\ nnCount = 0
                /\ ~FractionsPrinted
                /\ pc \notin {"main", "test", "loop"} => a = Reference
                /\ pc \in {"return", "exit"} =>
                       {out[k][1] : k \in 1 .. Len(out)} = Named
    /\ ~debug => /\ pc \notin {"main", "test", "loop"} => a \in RandMatrices
                 /\ pc # "exit" => out = <<>>
                 /\ pc = "exit" => (i = Trials /\ Len(out) = 1 /\ FractionsPrinted)
    /\ pc = "return" => \A c \in Calls : total[c] # None

\* A debug run has ended normally.
C9_Witness ==
    /\ debug
    /\ pc = "exit"
    /\ TestsReturned = 1
    /\ Len(out) = Cardinality(Named)

\* C10: on every finite affinity the loop that takes Size-1 steps and closes
\* and the loop that takes up to Size steps with the early exit return the
\* same (cost, tour).
C10_FormsAgree ==
    /\ ret.fn = "greedyClose" => Returned = GreedyEarly(aff, a, 0, Fresh)
    /\ ret.fn = "greedyEarly" => Returned = GreedyClose(aff, a, 0, Fresh)

----------------------------------------------------------------------------
(* The reference rule of greedy tour construction *)

\* The unvisited node with the smallest f[cur][candidate], the lowest index
\* among equals.
RefNext(f, cur, seen) ==
    CHOOSE j \in Nodes \ seen :
        \A k \in Nodes \ seen :
            \/ f[cur * Size + j] < f[cur * Size + k]
            \/ f[cur * Size + j] = f[cur * Size + k] /\ j <= k

RECURSIVE RefPath(_, _)

\* The path extended by the rule until every node is on it, then closed.
RefPath(f, path) ==
    IF Len(path) = Size THEN Append(path, path[1])
    ELSE RefPath(f, Append(path, RefNext(f, path[Len(path)],
                                         {path[k] : k \in 1 .. Len(path)})))

\* The candidate of each start offset, in offset order.
RefCandidates(f) == [o \in 1 .. Size |-> RefPath(f, <<o - 1>>)]

\* The earliest candidate among those of the smallest cost under m.
RefEarliestMin(m, c) ==
    LET k == CHOOSE x \in 1 .. Len(c) :
                 \A y \in 1 .. Len(c) :
                     \/ TourCost(m, c[x]) < TourCost(m, c[y])
                     \/ TourCost(m, c[x]) = TourCost(m, c[y]) /\ x <= y
    IN  Result(TourCost(m, c[k]), c[k])

RefGreedy(f, m) == RefEarliestMin(m, RefCandidates(f))

\* C11: the greedy loop returns what the reference rule gives: from each
\* start offset every step goes to the unvisited node with the smallest
\* affinity (lowest index among equals), each candidate is scored with the
\* true distances, and the earliest candidate of the smallest true cost is
\* the result.
C11_GreedyFollowsReference ==
    ret.fn = "greedyClose" => Returned = RefGreedy(aff, a)

\* C11 for affinities below math.MaxFloat64: there the loop follows the rule.
GreedyFollowsReferenceBelowSentinel ==
    (ret.fn = "greedyClose" /\ \A n \in Cells : aff[n] < MaxFloat64)
        => Returned = RefGreedy(aff, a)

\* C11 for Eigen and NearestNeighbor on the affinities they compute: Eigen's
\* first loop gives the rule's result on distances, its second keeps that
\* unless the rule's result on leftDistances is strictly cheaper, and
\* NearestNeighbor gives the rule's result on the distance matrix itself.
EigenKeepsCheaperVariant ==
    /\ [][(pc = "Eigen" /\ pc' = "EigenLeft") =>
             \E scale \in Affinities :
                 Result(ret'.total, ret'.loop)
                     = RefGreedy(SpectralDistances(scale, a), a)]_vars
    /\ [][pc = "EigenLeft" =>
             \E scale \in Affinities :
                 LET left == RefGreedy(SpectralDistances(scale, a), a)
                 IN  Result(ret'.total, ret'.loop)
                         = IF left.total < ret.total THEN left
                           ELSE Result(ret.total, ret.loop)]_vars
    /\ [][pc = "NearestNeighbor" =>
             Result(ret'.total, ret'.loop) = RefGreedy(a, a)]_vars

----------------------------------------------------------------------------
(* PageRank's tour *)

\* The score graph.Rank delivered for node n.
Score(n) == cities[CHOOSE k \in 1 .. Len(cities) : cities[k].ID = n].Rank

\* C12: with one score delivered per node, PageRank returns a Tour of Size+1
\* entries that starts at a node of the highest score, goes on through all
\* the other nodes in ascending order of score and closes at the node it
\* started from; its cost is the sum of the true distances along it.
C12_PageRankTour ==
    ret.fn = "PageRank" =>
        /\ Len(ret.loop) = Size + 1
        /\ IsTour(ret.loop)
        /\ \A n \in Nodes : Score(n) <= Score(ret.loop[1])
        /\ {ret.loop[k] : k \in 2 .. Size} = Nodes \ {ret.loop[1]}
        /\ \A k \in 2 .. (Size - 1) : Score(ret.loop[k]) <= Score(ret.loop[k + 1])
        /\ ret.loop[Size + 1] = ret.loop[1]
        /\ ret.total = TourCost(a, ret.loop)

\* PageRank has returned where the callbacks came neither in node order nor
\* in score order, one node alone had the highest score and two others
\* shared a lower one.
C12_Witness ==
    /\ ret.fn = "PageRank"
    /\ \E k \in 1 .. (Size - 1) : cities[k + 1].Rank < cities[k].Rank
    /\ \E k \in 1 .. (Size - 1) : cities[k + 1].ID < cities[k].ID
    /\ \A n \in Nodes \ {ret.loop[1]} : Score(n) < Score(ret.loop[1])
    /\ \E n, o \in Nodes \ {ret.loop[1]} : n # o /\ Score(n) = Score(o)
    /\ ret.total = TourCost(a, ret.loop)

----------------------------------------------------------------------------
(* The same statements where the failing cases are left out *)

\* Every affinity is below math.MaxFloat64, so "v < min" holds for the first
\* candidate of every scan.
BelowSentinel == \A n \in Cells : aff[n] < MaxFloat64

\* With C4's premise narrowed to affinities below math.MaxFloat64 both greedy
\* loops return a Tour.
GreedyReturnsTourBelowSentinel ==
    (ret.fn \in {"greedyClose", "greedyEarly"} /\ BelowSentinel) => IsTour(ret.loop)

\* With the same premise the two loops return the same (cost, tour).
FormsAgreeBelowSentinel == BelowSentinel => C10_FormsAgree

\* Every heuristic of a trial but EigenKMeans returns at least the exact cost.
ExactIsLowerBoundButKMeans ==
    \A h \in Named \ {"Search"} :
        (total["Search"] # None /\ total[h] # None) => total["Search"] <= total[h]

====
